---- MODULE Spec2Model ----
(***************************************************************************)
(* A model of dexopt_analyzer (src/src/main.rs).                           *)
(*                                                                         *)
(* Text is modelled character by character: a string is a sequence of      *)
(* one-character strings, so that trim, strip_prefix, rsplit_once,         *)
(* contains and the two regular expressions are computed the way the code  *)
(* computes them.                                                          *)
(*                                                                         *)
(* The module holds four specifications over one set of variables:         *)
(*   SpecDump   Analyzer::new, one action per iteration of its loop        *)
(*   SpecList   Package::fetch_list from the text of `pm list packages`    *)
(*   SpecLabel  Package::get_label with its aapt fallback                  *)
(*   Spec       main: filtering, label resolution on parallel workers,     *)
(*              the aggregation / presentation loop                        *)
(* A specification leaves the variables of the others at Idle.             *)
(***************************************************************************)
EXTENDS Integers, Sequences, FiniteSets, TLC

VARIABLES
    pc,              \* position of the running function
    dump,            \* Analyzer::new: the dump text
    lines,           \* Analyzer::new: dump.lines(), what the `for` iterates over
    lineno,          \* Analyzer::new: number of lines the iterator has yielded
    current_pkg,     \* Analyzer::new: Option<String>
    results,         \* Analyzer.results: HashMap<String, Vec<DexOptInfo>>
    origin,          \* history: per key, the line number each entry came from
    raw,             \* fetch_list: stdout of `pm list packages -f`
    list,            \* fetch_list: the Vec<Package> returned
    self,            \* get_label: the Package it is called on
    apk,             \* get_label: what Apk::new and get_application_label give
    aapt,            \* get_label: what running `aapt dump badging` gives
    label,           \* get_label: the Option<String> returned
    aapt_invoked,    \* history: whether get_label_from_aapt was called
    verbose,         \* main: args.verbose
    filter,          \* main: args.filter, an Option<String>
    packages,        \* main: the list fetch_list returned
    filtered_packages, \* main: the packages that pass the filter
    tasks,           \* main: per index of filtered_packages, the state of its
                     \* get_label task: "todo", "running" or "done"
    display_data,    \* main: the Vec being collected, then iterated
    overtaken,       \* history: a task finished before one of a lower index
    idx,             \* main: index of the next element of display_data
    stats,           \* main: BTreeMap<String, usize>
    total_displayed, \* main: usize
    out              \* main: what was written to stdout, one item per package

dumpVars == <<dump, lines, lineno, current_pkg, origin>>
listVars == <<raw, list>>
labelVars == <<self, apk, aapt, label, aapt_invoked>>
mainVars ==
    <<verbose, filter, packages, filtered_packages, tasks, display_data,
      overtaken, idx, stats, total_displayed, out>>
vars == <<pc, results, dumpVars, listVars, labelVars, mainVars>>

Idle == "idle"

IdleDump ==
    dump = Idle /\ lines = Idle /\ lineno = Idle /\ current_pkg = Idle /\ origin = Idle
IdleList == raw = Idle /\ list = Idle
IdleLabel ==
    self = Idle /\ apk = Idle /\ aapt = Idle /\ label = Idle /\ aapt_invoked = Idle
IdleMain ==
    /\ verbose = Idle /\ filter = Idle /\ packages = Idle /\ filtered_packages = Idle
    /\ tasks = Idle /\ display_data = Idle /\ overtaken = Idle /\ idx = Idle
    /\ stats = Idle /\ total_displayed = Idle /\ out = Idle

(***************************************************************************)
(* Bounds of the model.                                                    *)
(***************************************************************************)
\* longest dump, in lines, drawn from every kind of line
MaxDumpLines == 3
\* longest dump, in lines, drawn from headers and plain entries only
MaxBlockLines == 5

(***************************************************************************)
(* Option<T>                                                               *)
(***************************************************************************)
None == [tag |-> "None"]
Some(x) == [tag |-> "Some", val |-> x]
IsSome(o) == o.tag = "Some"

(***************************************************************************)
(* Characters and the str methods the code uses.                           *)
(***************************************************************************)
Lower == {"a", "b", "c", "d", "e", "f", "g", "h", "i", "j", "k", "l", "m",
          "n", "o", "p", "q", "r", "s", "t", "u", "v", "w", "x", "y", "z"}
Upper == {"A", "B", "F", "M"}
Digit == {"0", "1", "2", "3", "4", "5", "6", "7", "8", "9"}

\* char::is_whitespace
IsWhitespace(c) == c \in {" ", "\t", "\n", "\r"}
\* char::is_alphanumeric
IsAlphanumeric(c) == c \in Lower \cup Upper \cup Digit
\* the regex crate's word character, which \b is defined by
IsWordChar(c) == IsAlphanumeric(c) \/ c = "_"

\* str::starts_with
StartsWith(s, p) == Len(s) >= Len(p) /\ SubSeq(s, 1, Len(p)) = p
\* str::ends_with
EndsWith(s, p) == Len(s) >= Len(p) /\ SubSeq(s, Len(s) - Len(p) + 1, Len(s)) = p
\* whether p occurs in s at index i
OccursAt(s, p, i) == i >= 1 /\ i + Len(p) - 1 <= Len(s) /\ SubSeq(s, i, i + Len(p) - 1) = p
\* str::contains
Contains(s, p) == \E i \in 1..(Len(s) + 1) : OccursAt(s, p, i)

\* str::trim
Trim(s) ==
    LET keep == {i \in 1..Len(s) : ~IsWhitespace(s[i])}
    IN  IF keep = {} THEN << >>
        ELSE LET lo == CHOOSE i \in keep : \A j \in keep : i <= j
                 hi == CHOOSE i \in keep : \A j \in keep : j <= i
             IN  SubSeq(s, lo, hi)

\* str::lines: split at "\n", a final empty piece is dropped, one "\r" before
\* the "\n" (or at the end) is stripped
RECURSIVE SplitNewline(_)
SplitNewline(s) ==
    LET nl == {i \in 1..Len(s) : s[i] = "\n"}
    IN  IF s = << >> THEN << >>
        ELSE IF nl = {} THEN <<s>>
        ELSE LET k == CHOOSE i \in nl : \A j \in nl : i <= j
             IN  <<SubSeq(s, 1, k - 1)>> \o SplitNewline(SubSeq(s, k + 1, Len(s)))

StripCr(l) == IF l # << >> /\ l[Len(l)] = "\r" THEN SubSeq(l, 1, Len(l) - 1) ELSE l

Lines(s) == LET ls == SplitNewline(s) IN [i \in 1..Len(ls) |-> StripCr(ls[i])]

(***************************************************************************)
(* Analyzer::new                                                           *)
(***************************************************************************)
S_arm64 == <<"a", "r", "m", "6", "4", ":">>
S_arm == <<"a", "r", "m", ":">>
S_status == <<"s", "t", "a", "t", "u", "s">>
S_filter == <<"f", "i", "l", "t", "e", "r">>
S_unknown == <<"u", "n", "k", "n", "o", "w", "n">>

\* STATUS_RE = (arm64:|arm:), used with is_match
STATUS_RE_is_match(s) == Contains(s, S_arm64) \/ Contains(s, S_arm)

\* the class [^]\s] of FILTER_EXTRACT_RE
IsTokenChar(c) == c # "]" /\ ~IsWhitespace(c)

\* FilterMatchAt with the \b of the pattern left out
FilterMatchAt_NoBoundary(s, i) ==
    /\ \/ OccursAt(s, S_status \o <<"=">>, i)
       \/ OccursAt(s, S_filter \o <<"=">>, i)
    /\ i + 7 <= Len(s)
    /\ IsTokenChar(s[i + 7])

\* FILTER_EXTRACT_RE = \b(?:status|filter)=([^]\s]+) can match starting at i:
\* a word boundary before i, the keyword, '=', and at least one token character
FilterMatchAt(s, i) ==
    /\ i = 1 \/ ~IsWordChar(s[i - 1])
    /\ \/ OccursAt(s, S_status \o <<"=">>, i)
       \/ OccursAt(s, S_filter \o <<"=">>, i)
    /\ i + 7 <= Len(s)
    /\ IsTokenChar(s[i + 7])

\* the longest run of token characters starting at index i
TokenRun(s, i) ==
    LET stop == {j \in i..Len(s) : ~IsTokenChar(s[j])}
        end == IF stop = {} THEN Len(s)
               ELSE (CHOOSE j \in stop : \A k \in stop : j <= k) - 1
    IN  SubSeq(s, i, end)

\* FILTER_EXTRACT_RE.captures(s).and_then(|c| c.get(1)): group 1 of the
\* leftmost match
FILTER_EXTRACT_RE_captures(s) ==
    LET starts == {i \in 1..Len(s) : FilterMatchAt(s, i)}
    IN  IF starts = {} THEN None
        ELSE LET i == CHOOSE i \in starts : \A j \in starts : i <= j
             IN  Some(TokenRun(s, i + 7))

\* lines 190-194
ExtractStatus(trimmed) ==
    LET c == FILTER_EXTRACT_RE_captures(trimmed)
    IN  IF IsSome(c) THEN c.val ELSE S_unknown

\* IsHeader with the test for a space left out
IsHeader_IgnoresSpace(trimmed) ==
    /\ StartsWith(trimmed, <<"[">>)
    /\ EndsWith(trimmed, <<"]">>)
    /\ ~Contains(trimmed, <<"=">>)

\* lines 182-185
IsHeader(trimmed) ==
    /\ StartsWith(trimmed, <<"[">>)
    /\ EndsWith(trimmed, <<"]">>)
    /\ ~Contains(trimmed, <<" ">>)
    /\ ~Contains(trimmed, <<"=">>)

\* trimmed[1..trimmed.len() - 1]
HeaderKey(trimmed) == SubSeq(trimmed, 2, Len(trimmed) - 1)

DexOptInfo(raw_line, status) == [raw_line |-> raw_line, status |-> status]

\* MapPush written as results.insert(k, vec![v]): the key's list is replaced
MapPush_Replaces(m, k, v) ==
    IF k \in DOMAIN m THEN [m EXCEPT ![k] = <<v>>]
    ELSE (k :> <<v>>) @@ m

\* results.entry(k).or_default().push(v)
MapPush(m, k, v) ==
    IF k \in DOMAIN m THEN [m EXCEPT ![k] = Append(@, v)]
    ELSE (k :> <<v>>) @@ m

\* whether the line makes the loop push an entry, given current_pkg
PushesEntry(trimmed, cur) ==
    trimmed # << >> /\ ~IsHeader(trimmed) /\ IsSome(cur) /\ STATUS_RE_is_match(trimmed)

\* current_pkg after one iteration of the loop (lines 177-187)
NextCurrentPkg(trimmed, cur) ==
    IF trimmed # << >> /\ IsHeader(trimmed) THEN Some(HeaderKey(trimmed)) ELSE cur

\* results after one iteration of the loop (lines 188-201)
NextResults(trimmed, cur, m) ==
    IF PushesEntry(trimmed, cur)
    THEN MapPush(m, cur.val, DexOptInfo(trimmed, ExtractStatus(trimmed)))
    ELSE m

(***************************************************************************)
(* The dumps Analyzer::new is run on.                                      *)
(***************************************************************************)
K_a == <<"c", ".", "a">>
K_b == <<"c", ".", "b">>
T_speed == <<"s", "p">>
T_verify == <<"v", "f">>

L_headA == <<"[">> \o K_a \o <<"]">>
L_headB == <<" ", "[">> \o K_b \o <<"]", "\r">>
L_headSpace == <<"[", "c", " ", "a", "]">>
L_headMarker == <<"[">> \o S_arm \o <<"]">>
L_bracketEq == <<"[">> \o S_arm \o S_status \o <<"=">> \o T_verify \o <<"]">>
L_blank == <<" ", " ">>
L_status == <<" ", " ">> \o S_arm64 \o <<" ", "[">> \o S_status \o <<"=">> \o T_speed \o <<"]", " ">>
L_filter == <<"\t">> \o S_arm \o <<" ">> \o S_filter \o <<"=">> \o T_verify
L_noToken == S_arm \o <<" ", "x">>
L_noMarker == <<"p", ":", " ">> \o S_status \o <<"=">> \o T_speed
L_glued == S_arm \o <<" ", "x">> \o S_status \o <<"=">> \o T_speed \o <<" ">> \o S_filter \o <<"=">> \o T_verify
L_emptyTok == S_arm64 \o <<" ">> \o S_status \o <<"=", "]", " ">> \o S_filter \o <<"=">> \o T_verify

CoreLines == {L_headA, L_headB, L_status, L_filter}
DumpLines ==
    CoreLines \cup {L_headSpace, L_headMarker, L_bracketEq, L_blank,
                    L_noToken, L_noMarker, L_glued, L_emptyTok}

SeqsUpTo(S, n) == UNION {[1..k -> S] : k \in 0..n}

RECURSIVE JoinLines(_)
JoinLines(ls) ==
    IF ls = << >> THEN << >> ELSE ls[1] \o <<"\n">> \o JoinLines(Tail(ls))

DumpTexts ==
    {JoinLines(ls) : ls \in SeqsUpTo(DumpLines, MaxDumpLines) \cup SeqsUpTo(CoreLines, MaxBlockLines)}

InitDump ==
    /\ dump \in DumpTexts
    /\ lines = Lines(dump)
    /\ lineno = 0
    /\ current_pkg = None
    /\ results = << >>
    /\ origin = << >>
    /\ pc = "parse"
    /\ IdleList /\ IdleLabel /\ IdleMain

\* one iteration of `for line in dump.lines()`
AnalyzerNewStep ==
    /\ pc = "parse"
    /\ lineno < Len(lines)
    /\ LET trimmed == Trim(lines[lineno + 1])
       IN  /\ current_pkg' = NextCurrentPkg(trimmed, current_pkg)
           /\ results' = NextResults(trimmed, current_pkg, results)
           /\ origin' = IF PushesEntry(trimmed, current_pkg)
                        THEN MapPush(origin, current_pkg.val, lineno + 1)
                        ELSE origin
    /\ lineno' = lineno + 1
    /\ UNCHANGED <<pc, dump, lines, listVars, labelVars, mainVars>>

\* end of input: Analyzer { results }
AnalyzerNewReturn ==
    /\ pc = "parse"
    /\ lineno = Len(lines)
    /\ pc' = "parsed"
    /\ UNCHANGED <<results, dumpVars, listVars, labelVars, mainVars>>

NextDump == AnalyzerNewStep \/ AnalyzerNewReturn

SpecDump == InitDump /\ [][NextDump]_vars

(***************************************************************************)
(* Claims about Analyzer::new.  The predicates below restate the claims'   *)
(* words over the text of the dump; they do not use the parser.            *)
(***************************************************************************)
\* the n-th line of the dump, trimmed
DumpLine(n) == Trim(lines[n])

\* "contains an architecture marker (arm64: or arm:)"
HasMarker(t) ==
    \E i \in 1..Len(t) :
        \/ i + 3 <= Len(t) /\ <<t[i], t[i + 1], t[i + 2], t[i + 3]>> = <<"a", "r", "m", ":">>
        \/ /\ i + 5 <= Len(t)
           /\ <<t[i], t[i + 1], t[i + 2], t[i + 3], t[i + 4], t[i + 5]>>
                  = <<"a", "r", "m", "6", "4", ":">>

\* "valid header line (bracket-delimited, no space, no '=')"
ValidHeader(t) ==
    /\ Len(t) >= 2
    /\ t[1] = "[" /\ t[Len(t)] = "]"
    /\ \A i \in 1..Len(t) : t[i] # " " /\ t[i] # "="

\* "the text inside" a header line
InsideBrackets(t) == [i \in 1..(Len(t) - 2) |-> t[i + 1]]

\* the valid header lines before line n
HeadersBefore(n) == {h \in 1..(n - 1) : ValidHeader(DumpLine(h))}

\* the most recent of them
LastHeaderBefore(n) == CHOOSE h \in HeadersBefore(n) : \A g \in HeadersBefore(n) : g <= h

\* the line numbers recorded under any key
AllOrigins == UNION {{origin[k][j] : j \in 1..Len(origin[k])} : k \in DOMAIN origin}

\* the history variable origin runs parallel to results
OriginParallel ==
    /\ DOMAIN origin = DOMAIN results
    /\ \A k \in DOMAIN results :
        /\ Len(origin[k]) = Len(results[k])
        /\ \A j \in 1..Len(results[k]) :
            /\ origin[k][j] \in 1..lineno
            /\ results[k][j].raw_line = DumpLine(origin[k][j])

\* C1: every stored entry comes from a line that contains an architecture
\* marker and is stored under the key equal to the text inside the most
\* recent valid header line before it; a marker line with no valid header
\* before it produces no entry under any key.
C1_EntriesFollowHeader ==
    /\ OriginParallel
    /\ \A k \in DOMAIN results :
        /\ results[k] # << >>
        /\ \A j \in 1..Len(results[k]) :
            LET n == origin[k][j]
            IN  /\ HasMarker(DumpLine(n))
                /\ HeadersBefore(n) # {}
                /\ InsideBrackets(DumpLine(LastHeaderBefore(n))) = k
    /\ \A n \in 1..lineno :
        HasMarker(DumpLine(n)) /\ HeadersBefore(n) = {} => n \notin AllOrigins

\* a parsed dump that starts with an orphan marker line, dropped, and holds an
\* entry under a later header
C1_Witness ==
    /\ pc = "parsed"
    /\ lineno >= 3
    /\ HasMarker(DumpLine(1))
    /\ 1 \notin AllOrigins
    /\ \E k \in DOMAIN results : results[k] # << >>

IsPrefix(s, t) == Len(s) <= Len(t) /\ SubSeq(t, 1, Len(s)) = s

StrictlyIncreasing(s) == \A i, j \in 1..Len(s) : i < j => s[i] < s[j]

\* C2: under every key the entries keep the order of their source lines, and
\* a step never replaces what a key already holds: it only appends, also
\* when the key's header comes back after another package's block.
C2_OrderKeptAndAppended ==
    [][ /\ \A k \in DOMAIN results :
            /\ k \in DOMAIN results'
            /\ IsPrefix(results[k], results'[k])
            /\ IsPrefix(origin[k], origin'[k])
        /\ \A k \in DOMAIN origin' : StrictlyIncreasing(origin'[k])
        /\ DOMAIN origin' = DOMAIN results'
        /\ \A k \in DOMAIN results' :
            /\ Len(origin'[k]) = Len(results'[k])
            /\ \A j \in 1..Len(results'[k]) :
                results'[k][j].raw_line = Trim(lines[origin'[k][j]])
      ]_vars

\* a key whose entries come from two blocks with another package's header
\* between them
C2_Witness ==
    /\ pc = "parsed"
    /\ \E k \in DOMAIN origin : \E j \in 1..(Len(origin[k]) - 1) :
        \E n \in (origin[k][j] + 1)..(origin[k][j + 1] - 1) :
            ValidHeader(DumpLine(n)) /\ InsideBrackets(DumpLine(n)) # k

\* the text "status=" or "filter=" stands at index i of t
KeywordAt(t, i) ==
    /\ i + 6 <= Len(t)
    /\ t[i + 6] = "="
    /\ \/ [j \in 1..6 |-> t[i + j - 1]] = <<"s", "t", "a", "t", "u", "s">>
       \/ [j \in 1..6 |-> t[i + j - 1]] = <<"f", "i", "l", "t", "e", "r">>

\* "the maximal run of characters that are neither whitespace nor ']'" from
\* index i on
RunFrom(t, i) ==
    LET ok(j) == j <= Len(t) /\ t[j] \notin {" ", "\t", "\r", "\n", "]"}
        n == Cardinality({j \in i..Len(t) : \A h \in i..j : ok(h)})
    IN  [j \in 1..n |-> t[i + j - 1]]

\* the status C9 states: the token after the first status= or filter= that
\* has one, wherever in the line the keyword stands
StatedStatus(t) ==
    LET occ == {i \in 1..Len(t) : KeywordAt(t, i) /\ RunFrom(t, i + 7) # << >>}
    IN  IF occ = {} THEN <<"u", "n", "k", "n", "o", "w", "n">>
        ELSE RunFrom(t, (CHOOSE i \in occ : \A j \in occ : i <= j) + 7)

\* the same, counting only a keyword that starts a word: one at the start of
\* the line or after a character that is no letter, digit or underscore
WordStartStatus(t) ==
    LET occ == {i \in 1..Len(t) :
                    /\ KeywordAt(t, i) /\ RunFrom(t, i + 7) # << >>
                    /\ i = 1 \/ t[i - 1] \notin (Lower \cup Upper \cup Digit \cup {"_"})}
    IN  IF occ = {} THEN <<"u", "n", "k", "n", "o", "w", "n">>
        ELSE RunFrom(t, (CHOOSE i \in occ : \A j \in occ : i <= j) + 7)

\* the entries of every key, counted
EntryCount(m) ==
    LET RECURSIVE Sum(_)
        Sum(K) == IF K = {} THEN 0
                  ELSE LET k == CHOOSE x \in K : TRUE IN Len(m[k]) + Sum(K \ {k})
    IN  Sum(DOMAIN m)

\* the step that consumes line t, with package `cur` current, appends exactly
\* one entry [raw_line |-> t, status |-> st] under cur and changes nothing else
AppendsOne(t, cur, st) ==
    /\ DOMAIN results' = DOMAIN results \cup {cur}
    /\ \A k \in DOMAIN results \ {cur} : results'[k] = results[k]
    /\ results'[cur] =
           (IF cur \in DOMAIN results THEN results[cur] ELSE << >>)
               \o <<[raw_line |-> t, status |-> st]>>

\* C9 as stated: every entry's status is the token after the first status= or
\* filter= of its line, or "unknown".
C9_StatusIsFirstOccurrence ==
    \A k \in DOMAIN results : \A j \in 1..Len(results[k]) :
        results[k][j].status = StatedStatus(results[k][j].raw_line)

\* C9, amended: a non-blank, non-header line with an architecture marker,
\* consumed while a package is current, appends exactly one entry: the trimmed
\* line with the token after the first status= or filter= that starts a word
\* and has a token, or "unknown"; every other line appends nothing.
C9_OneEntryPerMarkerLine ==
    [][ lineno' = lineno + 1 =>
          LET t == Trim(lines[lineno + 1])
          IN  IF t # << >> /\ ~ValidHeader(t) /\ HasMarker(t) /\ current_pkg # None
              THEN AppendsOne(t, current_pkg.val, WordStartStatus(t))
              ELSE results' = results
      ]_vars

\* an entry whose line holds "xstatus=" before "filter=", one whose line has
\* no token, and a header line that holds a marker and appended nothing
C9_Witness ==
    /\ pc = "parsed"
    /\ \E k \in DOMAIN results : \E j \in 1..Len(results[k]) :
        /\ results[k][j].status # StatedStatus(results[k][j].raw_line)
        /\ results[k][j].status = T_verify
    /\ \/ \E k \in DOMAIN results : \E j \in 1..Len(results[k]) :
            results[k][j].status = S_unknown
       \/ \E n \in 1..lineno : ValidHeader(DumpLine(n)) /\ HasMarker(DumpLine(n))
    /\ EntryCount(results) < lineno

(***************************************************************************)
(* Package::fetch_list                                                     *)
(***************************************************************************)
S_package == <<"p", "a", "c", "k", "a", "g", "e", ":">>

\* the characters the model uses, in ascending byte order; String::cmp
\* compares bytes, and for these characters the byte order is this order
ByteOrder ==
    <<"\t", "\n", "\r", " ", "'", "-", ".", "/",
      "0", "1", "2", "3", "4", "5", "6", "7", "8", "9", ":", "=",
      "A", "B", "F", "M", "[", "]", "_",
      "a", "b", "c", "d", "e", "f", "g", "h", "i", "j", "k", "l", "m",
      "n", "o", "p", "q", "r", "s", "t", "u", "v", "w", "x", "y", "z">>

Byte(c) == CHOOSE i \in 1..Len(ByteOrder) : ByteOrder[i] = c

\* a.cmp(b) == Ordering::Less for strings: lexicographic by byte
StrLess(a, b) ==
    \E i \in 1..Len(b) :
        /\ i <= Len(a) + 1
        /\ SubSeq(a, 1, i - 1) = SubSeq(b, 1, i - 1)
        /\ i = Len(a) + 1 \/ Byte(a[i]) < Byte(b[i])

Package(name, path) == [name |-> name, path |-> path]

\* str::strip_prefix
StripPrefix(s, p) == IF StartsWith(s, p) THEN Some(SubSeq(s, Len(p) + 1, Len(s))) ELSE None

\* str::split_once('='): at the first '='
SplitOnce(s) ==
    LET eq == {i \in 1..Len(s) : s[i] = "="}
    IN  IF eq = {} THEN None
        ELSE LET k == CHOOSE i \in eq : \A j \in eq : i <= j
             IN  Some(<<SubSeq(s, 1, k - 1), SubSeq(s, k + 1, Len(s))>>)

\* str::rsplit_once('='): at the last '='
RsplitOnce(s) ==
    LET eq == {i \in 1..Len(s) : s[i] = "="}
    IN  IF eq = {} THEN None
        ELSE LET k == CHOOSE i \in eq : \A j \in eq : j <= i
             IN  Some(<<SubSeq(s, 1, k - 1), SubSeq(s, k + 1, Len(s))>>)

\* fetch_list with split_once in place of rsplit_once
ParsePackageLine_SplitsFirst(line) ==
    LET p == StripPrefix(Trim(line), S_package)
    IN  IF ~IsSome(p) THEN << >>
        ELSE LET sp == SplitOnce(p.val)
             IN  IF ~IsSome(sp) THEN << >>
                 ELSE <<Package(Trim(sp.val[2]), Trim(sp.val[1]))>>

\* lines 73-80: the packages one line pushes, none or one
ParsePackageLine(line) ==
    LET p == StripPrefix(Trim(line), S_package)
    IN  IF ~IsSome(p) THEN << >>
        ELSE LET sp == RsplitOnce(p.val)
             IN  IF ~IsSome(sp) THEN << >>
                 ELSE <<Package(Trim(sp.val[2]), Trim(sp.val[1]))>>

\* lines 70-81: the loop over raw.lines()
RECURSIVE CollectPackages(_)
CollectPackages(ls) ==
    IF ls = << >> THEN << >>
    ELSE ParsePackageLine(Head(ls)) \o CollectPackages(Tail(ls))

\* p put into the sorted list l behind every element that is not greater
InsertByName(l, p) ==
    LET after == {i \in 1..Len(l) : StrLess(p.name, l[i].name)}
        k == IF after = {} THEN Len(l) + 1
             ELSE CHOOSE i \in after : \A j \in after : i <= j
    IN  SubSeq(l, 1, k - 1) \o <<p>> \o SubSeq(l, k, Len(l))

RECURSIVE StableSort(_)
StableSort(l) ==
    IF l = << >> THEN << >>
    ELSE InsertByName(StableSort(SubSeq(l, 1, Len(l) - 1)), l[Len(l)])

\* sort_by with the paths compared instead of the names
SortByName_ComparesPath(l) ==
    LET swap(q) == [i \in 1..Len(q) |-> Package(q[i].path, q[i].name)]
    IN  swap(StableSort(swap(l)))

\* list.sort_by(|a, b| a.name.cmp(&b.name)): a stable sort
SortByName(l) == StableSort(l)

(***************************************************************************)
(* The listings fetch_list is run on.                                      *)
(***************************************************************************)
\* longest listing, in lines
MaxListLines == 3

N_upper == <<"c", ".", "B">>
N_short == <<"c">>

P_b == S_package \o <<"/", "b", "=">> \o K_b
P_a == S_package \o <<"/", "a", "=">> \o K_a
P_a2 == <<" ", " ">> \o S_package \o <<"/", "a", "2", "=">> \o K_a \o <<"\r">>
P_eqPath == S_package \o <<"/", "x", "=", "=", "/", "k", "=">> \o N_upper
P_short == S_package \o <<"/", "c", "=">> \o N_short
P_spaced == S_package \o <<" ", "/", "a", " ", "=", " ">> \o K_a \o <<" ">>
P_noSep == S_package \o <<"/", "a">>
P_noPrefix == K_a \o <<"=", "/", "a">>
P_empty == S_package \o <<"=">>

ListLines == {P_b, P_a, P_a2, P_eqPath, P_short, P_spaced, P_noSep, P_noPrefix, P_empty, << >>}

ListTexts == {JoinLines(ls) : ls \in SeqsUpTo(ListLines, MaxListLines)}

\* the state after `sh -c "pm list packages -f ..."` has returned its output
InitList ==
    /\ raw \in ListTexts
    /\ list = << >>
    /\ pc = "fetch"
    /\ results = Idle
    /\ IdleDump /\ IdleLabel /\ IdleMain

\* lines 69-84
FetchList ==
    /\ pc = "fetch"
    /\ list' = SortByName(CollectPackages(Lines(raw)))
    /\ pc' = "fetched"
    /\ UNCHANGED <<results, dumpVars, raw, labelVars, mainVars>>

NextList == FetchList

SpecList == InitList /\ [][NextList]_vars

(***************************************************************************)
(* Claims about fetch_list.                                                *)
(***************************************************************************)
\* the n-th line of the listing, trimmed
ListLine(n) == Trim(Lines(raw)[n])

\* "has the package: prefix and an '=' separator"
HasPrefixAndSeparator(t) ==
    /\ Len(t) >= 9
    /\ [i \in 1..8 |-> t[i]] = <<"p", "a", "c", "k", "a", "g", "e", ":">>
    /\ \E i \in 9..Len(t) : t[i] = "="

\* the index of the '=' that no '=' follows
LastEq(t) == CHOOSE i \in 9..Len(t) : t[i] = "=" /\ \A j \in (i + 1)..Len(t) : t[j] # "="

\* <path> and <name> of package:<path>=<name>, <name> holding no '='
PathOf(t) == [i \in 1..(LastEq(t) - 9) |-> t[i + 8]]
NameOf(t) == [i \in 1..(Len(t) - LastEq(t)) |-> t[LastEq(t) + i]]

\* the record the matching line t stands for
RecordOf(t) == [name |-> Trim(NameOf(t)), path |-> Trim(PathOf(t))]

\* package:<path>=<name> of a record
Serialize(p) == <<"p", "a", "c", "k", "a", "g", "e", ":">> \o p.path \o <<"=">> \o p.name

MatchingLines == {n \in 1..Len(Lines(raw)) : HasPrefixAndSeparator(ListLine(n))}

\* a <= b in byte order, by the first index where they differ
NameLeq(a, b) ==
    LET diff == {i \in 1..Len(a) : i > Len(b) \/ a[i] # b[i]}
    IN  IF diff = {} THEN TRUE
        ELSE LET d == CHOOSE i \in diff : \A j \in diff : i <= j
             IN  d <= Len(b) /\ Byte(a[d]) < Byte(b[d])

\* C8: the returned list is sorted by name in byte order and holds exactly
\* the records of the lines with the prefix and a separator, each as often as
\* the listing repeats it; no matching line gives the empty list.
C8_SortedArrangement ==
    pc = "fetched" =>
        /\ \A i \in 1..(Len(list) - 1) : NameLeq(list[i].name, list[i + 1].name)
        /\ Len(list) = Cardinality(MatchingLines)
        /\ \A n \in MatchingLines :
            Cardinality({i \in 1..Len(list) : list[i] = RecordOf(ListLine(n))})
                = Cardinality({m \in MatchingLines : RecordOf(ListLine(m)) = RecordOf(ListLine(n))})
        /\ MatchingLines = {} => list = << >>

\* a listing given out of order that repeats a name
C8_Witness ==
    /\ pc = "fetched"
    /\ Len(list) >= 2
    /\ \E i \in 1..(Len(list) - 1) : list[i].name = list[i + 1].name
    /\ \E n, m \in MatchingLines :
        n < m /\ ~NameLeq(RecordOf(ListLine(n)).name, RecordOf(ListLine(m)).name)

\* C10 as stated: every package:<path>=<name> line gives the record with the
\* trimmed path and the trimmed name, and that record, written back as
\* package:<path>=<name>, is the trimmed line.
C10_RoundTrip ==
    pc = "fetched" =>
        \A n \in MatchingLines :
            \E i \in 1..Len(list) :
                /\ list[i] = RecordOf(ListLine(n))
                /\ Serialize(list[i]) = ListLine(n)

\* C10, amended: the record holds the trimmed path, '=' characters inside it
\* included, and the trimmed name; written back it is the trimmed line
\* whenever <path> and <name> carry no whitespace of their own at either end.
C10_RoundTripOfTrimmedFields ==
    pc = "fetched" =>
        \A n \in MatchingLines :
            LET t == ListLine(n)
            IN  \E i \in 1..Len(list) :
                    /\ list[i].path = Trim(PathOf(t))
                    /\ list[i].name = Trim(NameOf(t))
                    /\ PathOf(t) = Trim(PathOf(t)) /\ NameOf(t) = Trim(NameOf(t))
                           => Serialize(list[i]) = t

\* a line whose path holds '=' was parsed, and so was one with blanks around
\* the separator
C10_Witness ==
    /\ pc = "fetched"
    /\ \E n \in MatchingLines : \E j \in 1..Len(PathOf(ListLine(n))) : PathOf(ListLine(n))[j] = "="
    /\ \E n \in MatchingLines : PathOf(ListLine(n)) # Trim(PathOf(ListLine(n)))

(***************************************************************************)
(* Package::get_label and Package::get_label_from_aapt                     *)
(***************************************************************************)
S_appLabel ==
    <<"a", "p", "p", "l", "i", "c", "a", "t", "i", "o", "n", "-",
      "l", "a", "b", "e", "l", ":", "'">>

\* str::replace(['\r', '\n'], " ")
ReplaceCrLf(s) == [i \in 1..Len(s) |-> IF s[i] \in {"\r", "\n"} THEN " " ELSE s[i]]

\* line 92
Clean(l) == ReplaceCrLf(Trim(l))

\* IsClassName without the comparison with the package's name
IsClassName_IgnoresName(clean, name) ==
    Contains(clean, <<".">>) /\ ~Contains(clean, <<" ">>)

\* line 96
IsClassName(clean, name) ==
    Contains(clean, <<".">>) /\ ~Contains(clean, <<" ">>) /\ clean # name

\* line 98
LooksLikeClass(clean) ==
    \A i \in 1..Len(clean) : IsAlphanumeric(clean[i]) \/ clean[i] = "." \/ clean[i] = "_"

\* Tier1 without the test of line 93
Tier1_KeepsEmpty(pkg, a) ==
    IF a.tag = "Label"
    THEN LET clean == Clean(a.val)
         IN  IF ~IsClassName(clean, pkg.name) \/ ~LooksLikeClass(clean)
             THEN Some(clean) ELSE None
    ELSE None

\* lines 90-105: Some(clean) where get_label returns at line 101, None where
\* it goes on to line 109.  a is what the apk_info crate gives for pkg.path:
\* [tag |-> "Err"] (Apk::new failed), [tag |-> "NoLabel"]
\* (get_application_label gave None) or [tag |-> "Label", val |-> text]
Tier1(pkg, a) ==
    IF a.tag = "Label"
    THEN LET clean == Clean(a.val)
         IN  IF clean # << >> /\ (~IsClassName(clean, pkg.name) \/ ~LooksLikeClass(clean))
             THEN Some(clean) ELSE None
    ELSE None

\* str::find('\''): the index of the first quote, 0 for None
FindQuote(s) ==
    LET q == {i \in 1..Len(s) : s[i] = "'"}
    IN  IF q = {} THEN 0 ELSE CHOOSE i \in q : \A j \in q : i <= j

\* lines 125-133: the loop over stdout.lines()
RECURSIVE ScanBadging(_)
ScanBadging(ls) ==
    IF ls = << >> THEN None
    ELSE LET l == StripPrefix(Trim(Head(ls)), S_appLabel)
         IN  IF IsSome(l) /\ FindQuote(l.val) # 0
             THEN Some(SubSeq(l.val, 1, FindQuote(l.val) - 1))
             ELSE ScanBadging(Tail(ls))

\* lines 112-134.  output is what Command::output gives:
\* [tag |-> "SpawnFailed"] or
\* [tag |-> "Exited", success |-> BOOLEAN, stdout |-> text]
GetLabelFromAapt(output) ==
    IF output.tag = "SpawnFailed" THEN None
    ELSE IF ~output.success THEN None
    ELSE ScanBadging(Lines(output.stdout))

\* lines 88-110
GetLabel(pkg, a, output) ==
    LET t == Tier1(pkg, a) IN IF IsSome(t) THEN t ELSE GetLabelFromAapt(output)

(***************************************************************************)
(* The packages, artifacts and aapt runs get_label is called with.         *)
(***************************************************************************)
PkgA == Package(K_a, <<"/", "a">>)
PkgB == Package(K_b, <<"/", "b">>)

A_name == K_a
A_padded == <<" ">> \o K_a \o <<"\t">>
A_class == <<"c", ".", "x">>
A_classUnder == <<"c", "_", "1", ".", "x">>
A_words == <<"M", " ", "a">>
A_dotWords == <<"A", ".", "b", " ", "c">>
A_plain == <<"A", "p", "p">>
A_dash == <<"a", ".", "b", "-", "c">>
A_newline == <<"c", ".", "\n", "x">>
A_empty == << >>
A_blank == <<" ", "\r", "\n">>

ApkLabels ==
    {A_name, A_padded, A_class, A_classUnder, A_words, A_dotWords, A_plain,
     A_dash, A_newline, A_empty, A_blank}

ApkOutcomes ==
    {[tag |-> "Err"], [tag |-> "NoLabel"]} \cup {[tag |-> "Label", val |-> l] : l \in ApkLabels}

B_pkgLine == S_package \o <<" ", "n", "=", "'", "c", "'">>
B_label == S_appLabel \o A_words \o <<"'">>
B_open == S_appLabel \o A_plain
B_second == <<" ", " ">> \o S_appLabel \o A_class \o <<"'", " ", "x", "'">>
B_emptyLabel == S_appLabel \o <<"'">>
B_locale ==
    <<"a", "p", "p", "l", "i", "c", "a", "t", "i", "o", "n", "-",
      "l", "a", "b", "e", "l", "-", "e", "n", ":", "'", "B", "'">>

Exited(ok, ls) == [tag |-> "Exited", success |-> ok, stdout |-> JoinLines(ls)]

AaptOutcomes ==
    {[tag |-> "SpawnFailed"],
     Exited(FALSE, <<B_label>>),
     Exited(TRUE, <<B_pkgLine, B_label>>),
     Exited(TRUE, <<B_pkgLine, B_locale>>),
     Exited(TRUE, <<B_open, B_second, B_label>>),
     Exited(TRUE, <<B_emptyLabel>>),
     Exited(TRUE, << >>)}

InitLabel ==
    /\ self \in {PkgA, PkgB}
    /\ apk \in ApkOutcomes
    /\ aapt \in AaptOutcomes
    /\ label = None
    /\ aapt_invoked = FALSE
    /\ pc = "get_label"
    /\ results = Idle
    /\ IdleDump /\ IdleList /\ IdleMain

\* pkg.get_label() returns at line 101
GetLabelNative ==
    /\ pc = "get_label"
    /\ IsSome(Tier1(self, apk))
    /\ label' = GetLabel(self, apk, aapt)
    /\ pc' = "labelled"
    /\ UNCHANGED <<results, dumpVars, listVars, mainVars, self, apk, aapt, aapt_invoked>>

\* pkg.get_label() returns at line 109
GetLabelFallback ==
    /\ pc = "get_label"
    /\ ~IsSome(Tier1(self, apk))
    /\ aapt_invoked' = TRUE
    /\ label' = GetLabel(self, apk, aapt)
    /\ pc' = "labelled"
    /\ UNCHANGED <<results, dumpVars, listVars, mainVars, self, apk, aapt>>

NextLabel == GetLabelNative \/ GetLabelFallback

SpecLabel == InitLabel /\ [][NextLabel]_vars

(***************************************************************************)
(* Claims about get_label.                                                 *)
(***************************************************************************)
\* "the normalized tier-1 label": trimmed, CR and LF turned into spaces
Normalized(l) ==
    LET t == Trim(l) IN [i \in 1..Len(t) |-> IF t[i] = "\r" \/ t[i] = "\n" THEN " " ELSE t[i]]

Has(s, c) == \E i \in 1..Len(s) : s[i] = c

\* "(a) it contains '.', contains no space, and differs from the package's
\* name, and (b) every character is alphanumeric, '.' or '_'"
StatedRejected(c, name) ==
    /\ Has(c, ".") /\ ~Has(c, " ") /\ c # name
    /\ \A i \in 1..Len(c) : c[i] \in Lower \cup Upper \cup Digit \cup {".", "_"}

\* tier 1 yields a non-empty normalized label
HasTier1Label == apk.tag = "Label" /\ Normalized(apk.val) # << >>

\* C3: a non-empty normalized tier-1 label is rejected exactly when (a) and
\* (b) hold; a label that is not rejected is the result, and the badging
\* tool is not run; a rejected one sends get_label to the badging tool.
C3_RejectedIffClassLike ==
    pc = "labelled" /\ HasTier1Label =>
        LET c == Normalized(apk.val)
        IN  /\ ~StatedRejected(c, self.name) => label = Some(c) /\ ~aapt_invoked
            /\ StatedRejected(c, self.name) => aapt_invoked
            /\ c = self.name => label = Some(c)
            /\ Has(c, " ") => label = Some(c)

\* a label equal to the package's name was returned
C3_Witness ==
    /\ pc = "labelled"
    /\ HasTier1Label
    /\ Normalized(apk.val) = self.name
    /\ label = Some(self.name)
    /\ ~aapt_invoked

\* the lines of aapt's output that hold application-label:'...'
BadgingLabelLines ==
    {n \in 1..Len(Lines(aapt.stdout)) :
        LET t == Trim(Lines(aapt.stdout)[n])
        IN  /\ Len(t) > 19
            /\ [i \in 1..19 |-> t[i]] = S_appLabel
            /\ \E i \in 20..Len(t) : t[i] = "'"}

\* the text between the quotes of such a line
BadgingLabel(n) ==
    LET t == Trim(Lines(aapt.stdout)[n])
        close == CHOOSE i \in 20..Len(t) : t[i] = "'" /\ \A j \in 20..(i - 1) : t[j] # "'"
    IN  [i \in 1..(close - 20) |-> t[i + 19]]

\* "the label found there, or absent when the tool cannot be started, exits
\* non-zero, or prints no application-label:'...' line"
StatedAaptResult ==
    IF aapt.tag = "SpawnFailed" THEN None
    ELSE IF ~aapt.success THEN None
    ELSE IF BadgingLabelLines = {} THEN None
    ELSE Some(BadgingLabel(CHOOSE n \in BadgingLabelLines : \A m \in BadgingLabelLines : n <= m))

\* tier 1 yields no value, an empty label or a rejected label
Tier1Unusable ==
    \/ apk.tag \in {"Err", "NoLabel"}
    \/ apk.tag = "Label" /\ Normalized(apk.val) = << >>
    \/ apk.tag = "Label" /\ StatedRejected(Normalized(apk.val), self.name)

\* C4: when tier 1 yields no value, an empty label or a rejected label, the
\* badging tool is run and get_label returns what it gives: the label found,
\* or absent; the result is an Option, no error.
C4_FallbackResult ==
    pc = "labelled" /\ Tier1Unusable =>
        /\ aapt_invoked
        /\ label = StatedAaptResult
        /\ label = None \/ (label.tag = "Some" /\ DOMAIN label = {"tag", "val"})

\* an empty tier-1 label fell through to a badging tool that gave a label
C4_Witness ==
    /\ pc = "labelled"
    /\ apk.tag = "Label" /\ Normalized(apk.val) = << >>
    /\ aapt_invoked
    /\ label # None /\ label.val # << >>

(***************************************************************************)
(* main                                                                    *)
(***************************************************************************)
\* Analyzer::new on a whole dump: the loop of lines 176-202, folded.
\* st is <<current_pkg, results>>
RECURSIVE AnalyzerFold(_, _)
AnalyzerFold(ls, st) ==
    IF ls = << >> THEN st[2]
    ELSE LET trimmed == Trim(Head(ls))
         IN  AnalyzerFold(Tail(ls),
                          <<NextCurrentPkg(trimmed, st[1]), NextResults(trimmed, st[1], st[2])>>)

AnalyzerNew(text) == AnalyzerFold(Lines(text), <<None, << >> >>)

\* lines 207-209
GetInfo(m, pkg_name) == IF pkg_name \in DOMAIN m THEN Some(m[pkg_name]) ELSE None

\* line 394
PassesFilter(f, pkg) == IF IsSome(f) THEN Contains(pkg.name, f.val) ELSE TRUE

\* lines 392-395
FilterPackages(f, l) == SelectSeq(l, LAMBDA pkg : PassesFilter(f, pkg))

\* line 412 written as *stats.entry(status).or_insert(1) += 1
StatsAdd_StartsAtOne(st, status) ==
    IF status \in DOMAIN st THEN [st EXCEPT ![status] = @ + 1]
    ELSE (status :> 2) @@ st

\* line 412: *stats.entry(status).or_insert(0) += 1
StatsAdd(st, status) ==
    IF status \in DOMAIN st THEN [st EXCEPT ![status] = @ + 1]
    ELSE (status :> 1) @@ st

\* lines 411-413
RECURSIVE Tally(_, _)
Tally(st, infos) ==
    IF infos = << >> THEN st ELSE Tally(StatsAdd(st, Head(infos).status), Tail(infos))

\* line 301
NoInfoFound ==
    <<"(", "n", "o", " ", "i", "n", "f", "o", " ", "f", "o", "u", "n", "d", ")">>

RawLines(infos) == [i \in 1..Len(infos) |-> infos[i].raw_line]

\* Render that leaves a package without dexopt information out in verbose
\* mode as well
Render_SkipsMissing(v, pkg, app_label, info_list) ==
    IF IsSome(info_list)
    THEN <<[pkg |-> pkg.name, label |-> app_label, body |-> RawLines(info_list.val)]>>
    ELSE << >>

\* lines 416-428: what one iteration writes for its package.  Verbose:
\* print_block_entry (lines 243-305), the name with its label and either the
\* entries' lines or the placeholder.  Otherwise the table rows of the
\* entries, and nothing at all for a package without entries
Render(v, pkg, app_label, info_list) ==
    IF v
    THEN <<[pkg |-> pkg.name, label |-> app_label,
            body |-> IF IsSome(info_list) THEN RawLines(info_list.val) ELSE <<NoInfoFound>>]>>
    ELSE IF IsSome(info_list)
    THEN <<[pkg |-> pkg.name, label |-> app_label, body |-> RawLines(info_list.val)]>>
    ELSE << >>

(***************************************************************************)
(* The device main runs on: the artifact and the aapt run behind each path *)
(***************************************************************************)
K_c == <<"c", ".", "c">>
PkgC == Package(K_c, <<"/", "c">>)

ApkAt(path) ==
    IF path = PkgA.path THEN [tag |-> "Label", val |-> A_words]
    ELSE IF path = PkgB.path THEN [tag |-> "Label", val |-> A_class]
    ELSE [tag |-> "Err"]

AaptAt(path) ==
    IF path = PkgB.path THEN Exited(TRUE, <<B_pkgLine, B_second>>)
    ELSE [tag |-> "SpawnFailed"]

\* pkg.get_label() on this device
ResolveLabel(pkg) == GetLabel(pkg, ApkAt(pkg.path), AaptAt(pkg.path))

Pending == "pending"

\* collect() written as a push of each result as it arrives
StoreResult_InArrivalOrder(dd, i, item) ==
    LET free == {k \in 1..Len(dd) : dd[k] = Pending}
    IN  [dd EXCEPT ![CHOOSE k \in free : \A h \in free : k <= h] = item]

\* lines 398-401: the indexed collect of rayon puts the result of the i-th
\* element at index i
StoreResult(dd, i, item) == [dd EXCEPT ![i] = item]

\* most packages in a list
MaxPkgs == 3
\* longest dump behind the map main is given, in lines
MaxMainLines == 3
\* threads of the rayon pool
NumThreads == 2

MainPackageLists == {SortByName(l) : l \in SeqsUpTo({PkgA, PkgB, PkgC}, MaxPkgs)}

D_merged == <<L_headA, L_status, L_headB, L_filter, L_noToken, L_headA, L_status>>

MainMaps ==
    {AnalyzerNew(JoinLines(ls)) : ls \in SeqsUpTo(CoreLines, MaxMainLines) \cup {D_merged}}

\* the state of main at line 388: the list fetched, the dump parsed
Init ==
    /\ verbose \in BOOLEAN
    /\ filter \in {None, Some(<<".">>), Some(<<"a">>)}
    /\ packages \in MainPackageLists
    /\ results \in MainMaps
    /\ filtered_packages = << >>
    /\ tasks = << >>
    /\ display_data = << >>
    /\ overtaken = FALSE
    /\ idx = 1
    /\ stats = << >>
    /\ total_displayed = 0
    /\ out = << >>
    /\ pc = "main"
    /\ IdleDump /\ IdleList /\ IdleLabel

\* lines 392-404 without --verbose: every package is paired with None
CollectSequential ==
    /\ pc = "main"
    /\ ~verbose
    /\ filtered_packages' = FilterPackages(filter, packages)
    /\ display_data' = [i \in 1..Len(filtered_packages') |-> <<filtered_packages'[i], None>>]
    /\ pc' = "loop"
    /\ UNCHANGED <<results, dumpVars, listVars, labelVars, verbose, filter, packages,
                   tasks, overtaken, idx, stats, total_displayed, out>>

\* lines 392-399 with --verbose: par_iter().map().collect() starts, one task
\* per filtered package
SpawnResolvers ==
    /\ pc = "main"
    /\ verbose
    /\ filtered_packages' = FilterPackages(filter, packages)
    /\ tasks' = [i \in 1..Len(filtered_packages') |-> "todo"]
    /\ display_data' = [i \in 1..Len(filtered_packages') |-> Pending]
    /\ pc' = "resolving"
    /\ UNCHANGED <<results, dumpVars, listVars, labelVars, verbose, filter, packages,
                   overtaken, idx, stats, total_displayed, out>>

\* a thread of the pool takes the task of index i
TaskStart(i) ==
    /\ pc = "resolving"
    /\ tasks[i] = "todo"
    /\ Cardinality({k \in 1..Len(tasks) : tasks[k] = "running"}) < NumThreads
    /\ tasks' = [tasks EXCEPT ![i] = "running"]
    /\ UNCHANGED <<pc, results, dumpVars, listVars, labelVars, verbose, filter, packages,
                   filtered_packages, display_data, overtaken, idx, stats,
                   total_displayed, out>>

\* line 400: get_label of the i-th package returns and its pair is stored
TaskFinish(i) ==
    /\ pc = "resolving"
    /\ tasks[i] = "running"
    /\ tasks' = [tasks EXCEPT ![i] = "done"]
    /\ display_data' =
           StoreResult(display_data, i, <<filtered_packages[i], ResolveLabel(filtered_packages[i])>>)
    /\ overtaken' = (overtaken \/ \E k \in 1..(i - 1) : tasks[k] # "done")
    /\ UNCHANGED <<pc, results, dumpVars, listVars, labelVars, verbose, filter, packages,
                   filtered_packages, idx, stats, total_displayed, out>>

\* line 401: collect() returns once every task has finished
CollectParallel ==
    /\ pc = "resolving"
    /\ \A i \in 1..Len(tasks) : tasks[i] = "done"
    /\ pc' = "loop"
    /\ UNCHANGED <<results, dumpVars, listVars, labelVars, mainVars>>

\* lines 406-429: one iteration of the loop over display_data
LoopStep ==
    /\ pc = "loop"
    /\ idx <= Len(display_data)
    /\ LET pkg == display_data[idx][1]
           app_label == display_data[idx][2]
           info_list == GetInfo(results, pkg.name)
       IN  /\ total_displayed' = IF IsSome(info_list) THEN total_displayed + 1 ELSE total_displayed
           /\ stats' = IF IsSome(info_list) THEN Tally(stats, info_list.val) ELSE stats
           /\ out' = out \o Render(verbose, pkg, app_label, info_list)
    /\ idx' = idx + 1
    /\ UNCHANGED <<pc, results, dumpVars, listVars, labelVars, verbose, filter, packages,
                   filtered_packages, tasks, display_data, overtaken>>

\* lines 406-429 when a write to stdout fails: `?` makes main return the
\* error, after lines 409-414 have counted the package
LoopWriteFails ==
    /\ pc = "loop"
    /\ idx <= Len(display_data)
    /\ LET pkg == display_data[idx][1]
           info_list == GetInfo(results, pkg.name)
       IN  /\ Render(verbose, pkg, display_data[idx][2], info_list) # << >>
           /\ total_displayed' = IF IsSome(info_list) THEN total_displayed + 1 ELSE total_displayed
           /\ stats' = IF IsSome(info_list) THEN Tally(stats, info_list.val) ELSE stats
    /\ pc' = "failed"
    /\ UNCHANGED <<results, dumpVars, listVars, labelVars, verbose, filter, packages,
                   filtered_packages, tasks, display_data, overtaken, idx, out>>

\* line 431: the loop has ended, print_summary is given the totals
LoopEnd ==
    /\ pc = "loop"
    /\ idx > Len(display_data)
    /\ pc' = "done"
    /\ UNCHANGED <<results, dumpVars, listVars, labelVars, mainVars>>

Next ==
    \/ CollectSequential
    \/ SpawnResolvers
    \/ \E i \in 1..Len(tasks) : TaskStart(i)
    \/ \E i \in 1..Len(tasks) : TaskFinish(i)
    \/ CollectParallel
    \/ LoopStep
    \/ LoopWriteFails
    \/ LoopEnd

Spec == Init /\ [][Next]_vars

(***************************************************************************)
(* Claims about main.                                                      *)
(***************************************************************************)
\* the rows of display_data the loop has processed
Processed == 1..(idx - 1)

\* the displayed ones among them: those whose name is a key of the map
Displayed == {i \in Processed : display_data[i][1].name \in DOMAIN results}

\* the entries of the displayed rows, as <<row, index of the entry>>
DisplayedEntries ==
    UNION {{<<i, j>> : j \in 1..Len(results[display_data[i][1].name])} : i \in Displayed}

StatusOf(e) == results[display_data[e[1]][1].name][e[2]].status

RECURSIVE SumOver(_, _)
SumOver(f, K) ==
    IF K = {} THEN 0 ELSE LET k == CHOOSE x \in K : TRUE IN f[k] + SumOver(f, K \ {k})

\* C5: while and after the loop runs, stats[s] is the number of entries of
\* status s over the displayed rows, stats has no other key, the values add
\* up to the number of those entries, and total_displayed is the number of
\* displayed rows.
C5_TallyCountsEntries ==
    pc \in {"loop", "done"} =>
        /\ DOMAIN stats = {StatusOf(e) : e \in DisplayedEntries}
        /\ \A s \in DOMAIN stats :
            stats[s] = Cardinality({e \in DisplayedEntries : StatusOf(e) = s})
        /\ SumOver(stats, DOMAIN stats) = Cardinality(DisplayedEntries)
        /\ total_displayed = Cardinality(Displayed)

\* the loop has ended over rows with and without a key; two statuses were
\* counted, one of them more than once
C5_Witness ==
    /\ pc = "done"
    /\ Cardinality(DOMAIN stats) >= 2
    /\ \E s \in DOMAIN stats : stats[s] >= 2
    /\ Displayed # Processed
    /\ total_displayed >= 2

\* the package names of out, in order
OutNames == [i \in 1..Len(out) |-> out[i].pkg]

\* C6: in verbose mode the loop runs only after every task has finished, and
\* then display_data holds at every index the filtered package of that index
\* with the label resolved for it; the loop writes the packages in the order
\* of the package list.
C6_IndexPreservingCollect ==
    verbose = TRUE /\ pc \in {"loop", "done", "failed"} =>
        /\ \A i \in 1..Len(tasks) : tasks[i] = "done"
        /\ Len(display_data) = Len(filtered_packages)
        /\ \A i \in 1..Len(display_data) :
            /\ display_data[i][1] = filtered_packages[i]
            /\ display_data[i][2] =
                   GetLabel(filtered_packages[i], ApkAt(filtered_packages[i].path),
                            AaptAt(filtered_packages[i].path))
        /\ \A i \in 1..(Len(filtered_packages) - 1) :
            NameLeq(filtered_packages[i].name, filtered_packages[i + 1].name)
        /\ OutNames = [i \in 1..Len(out) |-> filtered_packages[i].name]
        /\ \A i \in 1..Len(out) : out[i].label = display_data[i][2]

\* the loop has ended after a task overtook one of a lower index, over
\* packages with different labels
C6_Witness ==
    /\ verbose = TRUE
    /\ pc = "done"
    /\ overtaken = TRUE
    /\ \E i, j \in 1..Len(display_data) : display_data[i][2] # display_data[j][2]

\* every filtered package has its item in out, in order, with the placeholder
\* where the map has no key for it
EveryPackageRendered ==
    /\ Len(out) = Len(filtered_packages)
    /\ \A i \in 1..Len(out) :
        /\ out[i].pkg = filtered_packages[i].name
        /\ out[i].body = IF filtered_packages[i].name \in DOMAIN results
                         THEN [j \in 1..Len(results[filtered_packages[i].name]) |->
                                  results[filtered_packages[i].name][j].raw_line]
                         ELSE <<NoInfoFound>>

WithInfo == SelectSeq(filtered_packages, LAMBDA p : p.name \in DOMAIN results)

====
